---- MODULE Spec2Model ----
(***************************************************************************)
(* A model of genji's bolt-backed Store and iterator (boltengine) and of   *)
(* the Select statement executor with its result projection (sql/query),   *)
(* both found in src/sql/query/select.go.                                  *)
(*                                                                         *)
(* Byte strings are sequences of small naturals; the nil slice is <<>>.    *)
(* bbolt never stores an empty key, so an item key of <<>> is "no item".   *)
(***************************************************************************)
EXTENDS Integers, Sequences, FiniteSets, TLC

\* ------------------------------------------------------------------------
\* Bounds of the model
\* ------------------------------------------------------------------------

\* NextSequence is explored up to this counter value.
MaxSeq == 3

\* The sequence number persisted with the store when the transaction starts
\* ranges over 0..MaxStartSeq (0 is a fresh store).
MaxStartSeq == 1

\* Keys a caller passes to Put/Get/Delete.
Keys == {<<1>>, <<3>>}

\* Values a caller passes to Put (non-nil).
Vals == {<<7>>, <<8>>}

\* Values of the keys a transaction finds committed when it begins.
CommittedVals == {<<7>>}

\* Pivots handed to Seek while the store is also being written: the empty
\* pivot, one between the keys, one equal to a key and one above them all.
StorePivots == {<<>>, <<2>>, <<3>>, <<4>>}

\* Keys that can be stored when only the iterator is exercised.
IterKeys == {<<1>>, <<3>>, <<3, 1>>, <<5>>}

\* Pivots handed to Seek: the empty pivot, pivots below, between, equal to
\* and above the keys, of one and two bytes.
Pivots == {<<>>, <<0>>, <<1>>, <<2>>, <<3>>, <<3, 0>>, <<3, 1>>, <<3, 2>>,
           <<4>>, <<5>>, <<6>>}

\* Tables hold up to MaxDocs documents; LIMIT and OFFSET literals range over
\* -1..MaxDocs+1.
MaxDocs == 3

\* The integer field a delete statement filters on ranges over 1..MaxAge.
MaxAge == 3

\* ------------------------------------------------------------------------
\* Errors
\* ------------------------------------------------------------------------

NoErr == "nil"
ErrTransactionReadOnly == "engine.ErrTransactionReadOnly"
ErrKeyNotFound == "engine.ErrKeyNotFound"
ErrCanceled == "context.Canceled"
\* bbolt's _assert(b.nodes != nil, "nodes map expected") in Bucket.node.
Panic == "panic: assertion failed: nodes map expected"
ErrTxNotWritable == "bolt.ErrTxNotWritable"
ErrFieldNotFound == "document.ErrFieldNotFound"
ErrMissingTable == "missing table selector"
ErrOffsetNotNumber == "offset expression must evaluate to a number"
ErrLimitNotNumber == "limit expression must evaluate to a number"
\* Errors of the collaborators whose code is not part of this model.
ErrEval == "expression evaluation failed"
ErrConvert == "cannot convert value"
ErrTableNotFound == "table not found"
ErrFn == "error returned by fn"
ErrDecode == "cannot decode key"

\* ------------------------------------------------------------------------
\* State
\* ------------------------------------------------------------------------

VARIABLES
    writable,   \* s.bucket.Writable(): the transaction is read-write
    done,       \* s.ctx.Done() is closed
    pages,      \* what the store's bucket holds on committed pages
    bucket,     \* the *bolt.Bucket the Store holds in s.bucket:
                \* [data, seq, nodes]; nodes says that its node cache exists
    root,       \* the bucket the transaction has under s.name
    attached,   \* s.bucket is the bucket the transaction has under s.name
    it,         \* the iterator: [open, reverse, k, v, err, cur]
    res,        \* what the last call returned: [op, k, v, n, err]
    expect,     \* history: key |-> value of the latest successful Put not
                \* followed by a successful Delete or Truncate
    nseq,       \* history: number of successful NextSequence calls
    pre,        \* history: keys present before the last successful Truncate
    issued,     \* history: the values NextSequence has returned for this store
    sel,        \* the statement under execution and its table before it ran
    docs,       \* the documents the statement's table holds in storage
    execOut,    \* what SelectStmt.exec returned
    maskOut     \* what the last call on a projected document returned

storeVars == <<writable, done, pages, bucket, root, attached, it, res,
               expect, nseq, pre, issued>>
selVars == <<sel, docs, execOut, maskOut>>
vars == <<writable, done, pages, bucket, root, attached, it, res,
          expect, nseq, pre, issued, sel, docs, execOut, maskOut>>

\* ------------------------------------------------------------------------
\* Byte strings and maps
\* ------------------------------------------------------------------------

RECURSIVE BytesCompare(_, _)
\* bytes.Compare: lexicographic, -1 / 0 / +1; nil equals the empty slice.
BytesCompare(a, b) ==
    IF a = <<>> /\ b = <<>> THEN 0
    ELSE IF a = <<>> THEN -1
    ELSE IF b = <<>> THEN 1
    ELSE IF Head(a) < Head(b) THEN -1
    ELSE IF Head(a) > Head(b) THEN 1
    ELSE BytesCompare(Tail(a), Tail(b))

EmptyMap == [x \in {} |-> <<>>]

Min(a, b) == IF a < b THEN a ELSE b

\* All maps from a subset of ks to vs.
Maps(ks, vs) == UNION {[d -> vs] : d \in SUBSET ks}

RECURSIVE SortKeys(_)
\* The keys of a bucket in the byte order the B+tree keeps them in.
SortKeys(S) ==
    IF S = {} THEN <<>>
    ELSE LET m == CHOOSE x \in S : \A y \in S : BytesCompare(x, y) <= 0
         IN <<m>> \o SortKeys(S \ {m})

\* ------------------------------------------------------------------------
\* The bolt bucket as the Store uses it: an inline bucket, which is what a
\* bucket of a few small keys is.  A handle (*bolt.Bucket) is
\*   page    the contents of the inline page it was opened on
\*   rooted  its root node is materialized (rootNode != nil)
\*   node    the contents of the root node it materialized last
\*   nodes   its node cache exists (nodes != nil)
\*   data    what it reads: the root node when rooted, the page otherwise
\*   seq     its sequence
\* A change is refused in a read-only transaction.  Every change goes
\* through Bucket.node, which asserts that the node cache exists and
\* materializes the root node from the page.
\* ------------------------------------------------------------------------

\* bucket.Put: upsert.
BucketPut(b, k, v) ==
    IF ~writable THEN [bucket |-> b, err |-> ErrTxNotWritable]
    ELSE IF ~b.nodes THEN [bucket |-> b, err |-> Panic]
    ELSE LET d == [x \in DOMAIN b.data \cup {k} |->
                      IF x = k THEN v ELSE b.data[x]]
         IN [bucket |-> [b EXCEPT !.data = d, !.node = d, !.rooted = TRUE],
             err |-> NoErr]

\* bucket.Get: the value, or nil when the key is absent.
BucketGet(b, k) == IF k \in DOMAIN b.data THEN b.data[k] ELSE <<>>

\* bucket.Delete: removes the key; a key that is absent is left alone.
BucketDelete(b, k) ==
    IF ~writable THEN [bucket |-> b, err |-> ErrTxNotWritable]
    ELSE IF k \notin DOMAIN b.data THEN [bucket |-> b, err |-> NoErr]
    ELSE IF ~b.nodes THEN [bucket |-> b, err |-> Panic]
    ELSE LET d == [x \in DOMAIN b.data \ {k} |-> b.data[x]]
         IN [bucket |-> [b EXCEPT !.data = d, !.node = d, !.rooted = TRUE],
             err |-> NoErr]

\* bucket.NextSequence: materializes the root node, then increments the
\* bucket's counter and returns it.
BucketNextSequence(b) ==
    IF ~writable THEN [bucket |-> b, n |-> 0, err |-> ErrTxNotWritable]
    ELSE IF ~b.nodes THEN [bucket |-> b, n |-> 0, err |-> Panic]
    ELSE [bucket |-> [b EXCEPT !.seq = b.seq + 1, !.node = b.data,
                               !.rooted = TRUE],
          n |-> b.seq + 1, err |-> NoErr]

\* tx.Bucket(s.name) when the Store is built: the committed bucket, with a
\* node cache in a read-write transaction only.
OpenBucket(p, rw) ==
    [data |-> p.data, seq |-> p.seq, nodes |-> rw, page |-> p.data,
     node |-> p.data, rooted |-> FALSE]

\* tx.DeleteBucket(s.name), seen from the Store's handle.  The bucket
\* registered under the name loses its node cache and its root node; a
\* handle to it reads its inline page from then on.  A handle that was
\* already detached is not the bucket being deleted.
TxDeleteBucket(b, isAttached) ==
    IF isAttached
    THEN [b EXCEPT !.data = b.page, !.nodes = FALSE, !.rooted = FALSE]
    ELSE b

\* tx.CreateBucket(s.name): a new bucket on an empty inline page, with a
\* zero sequence.
TxCreateBucket ==
    [data |-> EmptyMap, seq |-> 0, nodes |-> TRUE, page |-> EmptyMap,
     node |-> EmptyMap, rooted |-> FALSE]

\* ------------------------------------------------------------------------
\* The bolt cursor: a stack of one element, which references the page or
\* the root node of its bucket, whichever the bucket read when the cursor
\* was last positioned, and an index into it.  A root node changes under
\* the cursor when the bucket is written to; a page never does.
\*   stack  the stack holds the element
\*   ref    "page" or "node"
\*   cur    the index plus one: 0 before the first element, 1..n on an
\*          element, n+1 past the last one
\* ------------------------------------------------------------------------

\* Bucket.pageNode: what a cursor that is positioned anew references.
PageNode(b) == IF b.rooted THEN "node" ELSE "page"

\* The contents of what a cursor references.
Ref(b, ref) == IF ref = "node" THEN b.node ELSE b.page

\* Cursor.keyValue: the element at the index, nil when there is none.
KeyValue(b, stack, ref, cur) ==
    LET ks == SortKeys(DOMAIN Ref(b, ref))
    IN IF stack /\ cur >= 1 /\ cur <= Len(ks)
       THEN [stack |-> stack, ref |-> ref, cur |-> cur,
             k |-> ks[cur], v |-> Ref(b, ref)[ks[cur]]]
       ELSE [stack |-> stack, ref |-> ref, cur |-> cur,
             k |-> <<>>, v |-> <<>>]

\* Cursor.Seek: the first key >= pivot, nil past the end.
CursorSeek(b, pivot) ==
    LET ks == SortKeys(DOMAIN Ref(b, PageNode(b)))
        at == {i \in 1..Len(ks) : BytesCompare(ks[i], pivot) >= 0}
        i == IF at = {} THEN Len(ks) + 1
             ELSE CHOOSE j \in at : \A l \in at : j <= l
    IN KeyValue(b, TRUE, PageNode(b), i)

\* Cursor.Last: the last key, nil in an empty bucket.
CursorLast(b) ==
    KeyValue(b, TRUE, PageNode(b), Cardinality(DOMAIN Ref(b, PageNode(b))))

\* Cursor.Prev: one element back; running off the front empties the stack.
CursorPrev(b, c) ==
    IF c.stack /\ c.cur > 1 THEN KeyValue(b, TRUE, c.ref, c.cur - 1)
    ELSE KeyValue(b, FALSE, c.ref, 0)

\* Cursor.Next: one element forward; at the end it returns nil and the
\* cursor stays where it is.
CursorNext(b, c) ==
    IF c.stack /\ c.cur < Cardinality(DOMAIN Ref(b, c.ref))
    THEN KeyValue(b, TRUE, c.ref, c.cur + 1)
    ELSE [stack |-> c.stack, ref |-> c.ref, cur |-> c.cur,
          k |-> <<>>, v |-> <<>>]

\* ------------------------------------------------------------------------
\* Store operations (boltengine.Store)
\* ------------------------------------------------------------------------

Result(op, k, v, n, err) == [op |-> op, k |-> k, v |-> v, n |-> n, err |-> err]

NoRes == Result("none", <<>>, <<>>, 0, NoErr)

NoIt == [open |-> FALSE, reverse |-> FALSE, k |-> <<>>, v |-> <<>>,
         err |-> NoErr, stack |-> FALSE, ref |-> "page", cur |-> 0]

\* The bucket registered under s.name follows s.bucket while they are the
\* same object.
RootAfter(b) == IF attached THEN b ELSE root

\* Put as it would be without the Writable() check.
PutOutcome_NoReadOnlyCheck(k, v) ==
    IF done THEN [bucket |-> bucket, err |-> ErrCanceled]
    ELSE BucketPut(bucket, k, v)

\* Store.Put: cancellation, then read-only, then bucket.Put.
PutOutcome(k, v) ==
    IF done THEN [bucket |-> bucket, err |-> ErrCanceled]
    ELSE IF ~writable THEN [bucket |-> bucket, err |-> ErrTransactionReadOnly]
    ELSE BucketPut(bucket, k, v)

\* Store.Get: cancellation, then bucket.Get; nil is reported as not found.
GetOutcome(k) ==
    IF done THEN [v |-> <<>>, err |-> ErrCanceled]
    ELSE LET v == BucketGet(bucket, k)
         IN IF v = <<>> THEN [v |-> <<>>, err |-> ErrKeyNotFound]
            ELSE [v |-> v, err |-> NoErr]

\* Delete as it would be if it reported success without deleting.
DeleteOutcome_NoDelete(k) ==
    IF done THEN [bucket |-> bucket, err |-> ErrCanceled]
    ELSE IF ~writable THEN [bucket |-> bucket, err |-> ErrTransactionReadOnly]
    ELSE IF BucketGet(bucket, k) = <<>>
         THEN [bucket |-> bucket, err |-> ErrKeyNotFound]
    ELSE [bucket |-> bucket, err |-> NoErr]

\* Delete as it would be if it looked the key up before anything else.
DeleteOutcome_PresenceFirst(k) ==
    IF BucketGet(bucket, k) = <<>>
    THEN [bucket |-> bucket, err |-> ErrKeyNotFound]
    ELSE IF done THEN [bucket |-> bucket, err |-> ErrCanceled]
    ELSE IF ~writable THEN [bucket |-> bucket, err |-> ErrTransactionReadOnly]
    ELSE BucketDelete(bucket, k)

\* Store.Delete: cancellation, read-only, presence, then bucket.Delete.
DeleteOutcome(k) ==
    IF done THEN [bucket |-> bucket, err |-> ErrCanceled]
    ELSE IF ~writable THEN [bucket |-> bucket, err |-> ErrTransactionReadOnly]
    ELSE IF BucketGet(bucket, k) = <<>>
         THEN [bucket |-> bucket, err |-> ErrKeyNotFound]
    ELSE BucketDelete(bucket, k)

\* Store.Truncate: cancellation, read-only, then tx.DeleteBucket(s.name) and
\* tx.CreateBucket(s.name).  The bucket CreateBucket returns is dropped:
\* s.bucket keeps pointing at the bucket that was deleted.
TruncateOutcome ==
    IF done
    THEN [bucket |-> bucket, root |-> root, attached |-> attached,
          err |-> ErrCanceled]
    ELSE IF ~writable
    THEN [bucket |-> bucket, root |-> root, attached |-> attached,
          err |-> ErrTransactionReadOnly]
    ELSE [bucket |-> TxDeleteBucket(bucket, attached),
          root |-> TxCreateBucket, attached |-> FALSE, err |-> NoErr]

\* NextSequence as it would be if it returned the counter before the
\* increment.
NextSequenceOutcome_ReturnsOld ==
    IF done THEN [bucket |-> bucket, n |-> 0, err |-> ErrCanceled]
    ELSE IF ~writable
    THEN [bucket |-> bucket, n |-> 0, err |-> ErrTransactionReadOnly]
    ELSE [BucketNextSequence(bucket) EXCEPT !.n = bucket.seq]

\* Store.NextSequence: cancellation, read-only, then bucket.NextSequence.
NextSequenceOutcome ==
    IF done THEN [bucket |-> bucket, n |-> 0, err |-> ErrCanceled]
    ELSE IF ~writable
    THEN [bucket |-> bucket, n |-> 0, err |-> ErrTransactionReadOnly]
    ELSE BucketNextSequence(bucket)

Put(k, v) ==
    LET o == PutOutcome(k, v) IN
    /\ bucket' = o.bucket
    /\ root' = RootAfter(o.bucket)
    /\ res' = Result("Put", k, v, 0, o.err)
    /\ expect' = IF o.err = NoErr
                 THEN [x \in DOMAIN expect \cup {k} |->
                           IF x = k THEN v ELSE expect[x]]
                 ELSE expect
    /\ UNCHANGED <<writable, done, pages, attached, it, nseq, pre, issued,
                   selVars>>

Get(k) ==
    LET o == GetOutcome(k) IN
    /\ res' = Result("Get", k, o.v, 0, o.err)
    /\ UNCHANGED <<writable, done, pages, bucket, root, attached, it,
                   expect, nseq, pre, issued, selVars>>

Delete(k) ==
    LET o == DeleteOutcome(k) IN
    /\ bucket' = o.bucket
    /\ root' = RootAfter(o.bucket)
    /\ res' = Result("Delete", k, <<>>, 0, o.err)
    /\ expect' = IF o.err = NoErr
                 THEN [x \in DOMAIN expect \ {k} |-> expect[x]]
                 ELSE expect
    /\ UNCHANGED <<writable, done, pages, attached, it, nseq, pre, issued,
                   selVars>>

Truncate ==
    LET o == TruncateOutcome IN
    /\ bucket' = o.bucket
    /\ root' = o.root
    /\ attached' = o.attached
    /\ res' = Result("Truncate", <<>>, <<>>, 0, o.err)
    /\ expect' = IF o.err = NoErr THEN EmptyMap ELSE expect
    /\ pre' = IF o.err = NoErr THEN DOMAIN bucket.data ELSE pre
    /\ UNCHANGED <<writable, done, pages, it, nseq, issued, selVars>>

NextSequence ==
    LET o == NextSequenceOutcome IN
    /\ bucket.seq < MaxSeq
    /\ bucket' = o.bucket
    /\ root' = RootAfter(o.bucket)
    /\ res' = Result("NextSequence", <<>>, <<>>, o.n, o.err)
    /\ nseq' = IF o.err = NoErr THEN nseq + 1 ELSE nseq
    /\ issued' = IF o.err = NoErr THEN issued \cup {o.n} ELSE issued
    /\ UNCHANGED <<writable, done, pages, attached, it, expect, pre, selVars>>

\* Transaction.GetStore(s.name): a new Store on the bucket the transaction
\* has under the name now.  The old handle is dropped and its iterators
\* with it: the model follows the iterators of the Store in use.
GetStoreOutcome ==
    IF done THEN [bucket |-> bucket, attached |-> attached, err |-> ErrCanceled]
    ELSE [bucket |-> root, attached |-> TRUE, err |-> NoErr]

GetStore ==
    LET o == GetStoreOutcome IN
    /\ bucket' = o.bucket
    /\ attached' = o.attached
    /\ it' = IF o.err = NoErr THEN NoIt ELSE it
    /\ res' = Result("GetStore", <<>>, <<>>, 0, o.err)
    /\ UNCHANGED <<writable, done, pages, root, expect, nseq, pre, issued,
                   selVars>>

\* The context of the owning transaction is cancelled; it stays cancelled.
Cancel ==
    /\ ~done
    /\ done' = TRUE
    /\ UNCHANGED <<writable, pages, bucket, root, attached, it, res,
                   expect, nseq, pre, issued, selVars>>

\* ------------------------------------------------------------------------
\* Iterator (boltengine.iterator)
\* ------------------------------------------------------------------------

\* Store.Iterator: a fresh cursor on s.bucket, no item, no error.  It can be
\* called at any time; `it` is the iterator made last, it.open telling that
\* there is one.
Iterator(reverse) ==
    /\ it' = [NoIt EXCEPT !.open = TRUE, !.reverse = reverse]
    /\ res' = Result("Iterator", <<>>, <<>>, 0, NoErr)
    /\ UNCHANGED <<writable, done, pages, bucket, root, attached,
                   expect, nseq, pre, issued, selVars>>

\* The loop condition as it would be if the walk went on until it met the
\* pivot itself.
WalkCond_UntilEqual(k, pivot) == BytesCompare(k, pivot) # 0

\* The condition of the walk back: bytes.Compare(it.item.k, pivot) > 0.
WalkCond(k, pivot) == BytesCompare(k, pivot) > 0

RECURSIVE WalkBack(_, _, _)
\* for bytes.Compare(it.item.k, pivot) > 0 { it.item = it.c.Prev() }
WalkBack(b, item, pivot) ==
    IF WalkCond(item.k, pivot)
    THEN WalkBack(b, CursorPrev(b, item), pivot)
    ELSE item

\* The reverse branch as it would be if a forward seek that finds no key
\* fell back to the last key.
ReverseSeek_FallBackToLast(b, pivot) ==
    LET item == CursorSeek(b, pivot)
    IN IF item.k # <<>> THEN WalkBack(b, item, pivot) ELSE CursorLast(b)

\* The reverse branch of Seek with a non-empty pivot: forward seek, then
\* walk back while the key is above the pivot, if the seek found a key.
ReverseSeek(b, pivot) ==
    LET item == CursorSeek(b, pivot)
    IN IF item.k # <<>> THEN WalkBack(b, item, pivot) ELSE item

\* The iterator after a cursor call: the item it returned and the cursor
\* where the call left it.
WithItem(i, item) ==
    [i EXCEPT !.k = item.k, !.v = item.v, !.stack = item.stack,
              !.ref = item.ref, !.cur = item.cur]

\* Seek as it would be without the ctx.Done() check.
SeekOutcome_NoCancelCheck(i, b, pivot) ==
    WithItem(i, IF ~i.reverse THEN CursorSeek(b, pivot)
                ELSE IF Len(pivot) = 0 THEN CursorLast(b)
                ELSE ReverseSeek(b, pivot))

\* iterator.Seek.
SeekOutcome(i, b, pivot) ==
    IF done THEN [i EXCEPT !.err = ErrCanceled]
    ELSE WithItem(i, IF ~i.reverse THEN CursorSeek(b, pivot)
                     ELSE IF Len(pivot) = 0 THEN CursorLast(b)
                     ELSE ReverseSeek(b, pivot))

\* iterator.Next: Prev in reverse mode, Next otherwise; no cancellation check.
NextOutcome(i, b) ==
    WithItem(i, IF i.reverse THEN CursorPrev(b, i) ELSE CursorNext(b, i))

\* Valid as it would be if it looked at the item only.
Valid_IgnoresErr(i) == i.k # <<>>

\* iterator.Valid.
Valid(i) == i.k # <<>> /\ i.err = NoErr

Seek(pivot) ==
    /\ it.open
    /\ it' = SeekOutcome(it, bucket, pivot)
    /\ res' = Result("Seek", pivot, it'.k, 0, it'.err)
    /\ UNCHANGED <<writable, done, pages, bucket, root, attached,
                   expect, nseq, pre, issued, selVars>>

IterNext ==
    /\ it.open
    /\ it' = NextOutcome(it, bucket)
    /\ res' = Result("Next", <<>>, it'.k, 0, it'.err)
    /\ UNCHANGED <<writable, done, pages, bucket, root, attached,
                   expect, nseq, pre, issued, selVars>>

\* Seek, one step of its loop at a time.  SeekBegin is Seek up to the loop:
\* it returns at once when the context is cancelled, in forward mode, with
\* an empty pivot and when the forward seek finds no key; otherwise the walk
\* back is under way, res.op being "Seek:walk" until Seek returns.
Walking == res.op = "Seek:walk"

SeekBegin(pivot) ==
    /\ it.open
    /\ ~Walking
    /\ IF done \/ ~it.reverse \/ Len(pivot) = 0
       THEN /\ it' = SeekOutcome(it, bucket, pivot)
            /\ res' = Result("Seek", pivot, it'.k, 0, it'.err)
       ELSE LET item == CursorSeek(bucket, pivot)
            IN /\ it' = WithItem(it, item)
               /\ res' = Result(IF item.k # <<>> THEN "Seek:walk" ELSE "Seek",
                                pivot, item.k, 0, it.err)
    /\ UNCHANGED <<writable, done, pages, bucket, root, attached,
                   expect, nseq, pre, issued, selVars>>

\* One evaluation of the loop condition: Prev when it holds, return when it
\* does not.
WalkStep ==
    /\ it.open
    /\ Walking
    /\ IF WalkCond(it.k, res.k)
       THEN LET item == CursorPrev(bucket, it)
            IN /\ it' = WithItem(it, item)
               /\ res' = [res EXCEPT !.v = item.k]
       ELSE /\ it' = it
            /\ res' = [res EXCEPT !.op = "Seek"]
    /\ UNCHANGED <<writable, done, pages, bucket, root, attached,
                   expect, nseq, pre, issued, selVars>>

\* iterator.Close returns nil and touches nothing: the item, the error and
\* the cursor are what they were, and the iterator can be used again.
Close ==
    /\ it.open
    /\ res' = Result("Close", <<>>, <<>>, 0, NoErr)
    /\ UNCHANGED <<writable, done, pages, bucket, root, attached, it,
                   expect, nseq, pre, issued, selVars>>

\* ------------------------------------------------------------------------
\* Properties of the store
\* ------------------------------------------------------------------------

MutatingOps == {"Put", "Delete", "Truncate", "NextSequence"}

\* C1 as stated: on a read-only store every Put, Delete, Truncate and
\* NextSequence fails with the read-only error, and the contents stay what
\* they were.
C1_ReadOnlyAlwaysReadOnlyError ==
    ~writable =>
        /\ bucket.data = pages.data
        /\ res.op \in MutatingOps => res.err = ErrTransactionReadOnly

\* C1 amended: on a read-only store every Put, Delete, Truncate and
\* NextSequence fails, with the read-only error when the context is not
\* cancelled and with the cancellation error when it is, and the contents
\* and the sequence counter stay what they were.
C1_ReadOnlyRejected ==
    ~writable =>
        /\ bucket.data = pages.data
        /\ bucket.seq = pages.seq
        /\ root = bucket
        /\ res.op \in MutatingOps =>
              /\ res.err \in {ErrTransactionReadOnly, ErrCanceled}
              /\ res.err = ErrCanceled => done
              /\ ~done => res.err = ErrTransactionReadOnly

\* A read-only store refused to delete a key it holds.
C1_Witness ==
    /\ ~writable
    /\ ~done
    /\ res.op = "Delete"
    /\ res.k \in DOMAIN bucket.data
    /\ res.err = ErrTransactionReadOnly

\* C2: on a writable store that saw only Put and Delete, a Get that is not
\* cancelled returns the value of the latest successful Put of its key not
\* followed by a successful Delete, and fails with KeyNotFound when there is
\* no such Put.
C2_GetReturnsLatestPut ==
    (writable /\ attached /\ res.op = "Get" /\ res.err # ErrCanceled) =>
        IF res.k \in DOMAIN expect
        THEN res.err = NoErr /\ res.v = expect[res.k]
        ELSE res.err = ErrKeyNotFound /\ res.v = <<>>

\* A Get returned a value that overwrote the committed one.
C2_Witness ==
    /\ writable
    /\ attached
    /\ res.op = "Get"
    /\ res.err = NoErr
    /\ res.k \in DOMAIN pages.data
    /\ res.v # pages.data[res.k]

\* C3 as stated: after a successful Truncate, Get on the same handle fails
\* with KeyNotFound for every key present before, a later Put succeeds and
\* the Get after it returns the value put, the handle being the recreated
\* namespace.
C3_TruncatedHandleUsable ==
    (writable /\ ~attached) =>
        /\ (res.op = "Get" /\ res.err # ErrCanceled /\ res.k \in pre
               /\ res.k \notin DOMAIN expect) => res.err = ErrKeyNotFound
        /\ (res.op = "Get" /\ res.err # ErrCanceled
               /\ res.k \in DOMAIN expect) =>
                  res.err = NoErr /\ res.v = expect[res.k]
        /\ (res.op = "Put" /\ res.err # ErrCanceled) => res.err = NoErr
        /\ root.data = expect

\* C6: on a fresh writable store the i-th successful NextSequence returns i,
\* whatever Put, Get and Delete calls come in between.
C6_SequenceCountsCalls ==
    (pages.seq = 0 /\ pages.data = EmptyMap
        /\ res.op = "NextSequence" /\ res.err = NoErr) => res.n = nseq

\* The third NextSequence of a fresh store returned 3 with a key stored in
\* between.
C6_Witness ==
    /\ pages.seq = 0
    /\ pages.data = EmptyMap
    /\ res.op = "NextSequence"
    /\ res.err = NoErr
    /\ res.n = 3
    /\ nseq = 3
    /\ DOMAIN bucket.data # {}

\* The failure conditions of a call that hold in a state, by rank: the
\* context is cancelled (1), the call changes a read-only store (2), the
\* call is a Get or Delete of a key the store does not hold (3).
FailureRanks(op, k) ==
    (IF done THEN {1} ELSE {})
        \cup (IF op \in MutatingOps /\ ~writable THEN {2} ELSE {})
        \cup (IF op \in {"Get", "Delete"} /\ k \notin DOMAIN bucket.data
              THEN {3} ELSE {})

ErrorOfRank(r) ==
    CASE r = 1 -> ErrCanceled
      [] r = 2 -> ErrTransactionReadOnly
      [] OTHER -> ErrKeyNotFound

\* C18: when several failure conditions hold at once for a Put, Get,
\* Delete, Truncate or NextSequence, the call reports the one that ranks
\* first in Cancelled > ReadOnly > KeyNotFound.
C18_ErrorPrecedence ==
    [][(res' # res /\ res'.op \in MutatingOps \cup {"Get"}) =>
          LET ranks == FailureRanks(res'.op, res'.k)
          IN ranks # {} =>
                res'.err = ErrorOfRank(CHOOSE r \in ranks :
                                           \A q \in ranks : r <= q)]_vars

\* A Delete of an absent key on a read-only store with the context
\* cancelled reported the cancellation.
C18_Witness ==
    /\ ~writable
    /\ done
    /\ res.op = "Delete"
    /\ res.k \notin DOMAIN bucket.data
    /\ res.err = ErrCanceled

\* C16 as stated: NextSequence never returns a value it has returned for
\* this store before, in this transaction or in an earlier one, whatever
\* Put, Delete, Truncate and NextSequence calls were made in between.
C16_SequenceNeverRepeats ==
    [][(nseq' = nseq + 1) =>
          /\ res'.n \notin issued
          /\ \A n \in issued : res'.n > n]_vars

\* ------------------------------------------------------------------------
\* Properties of Seek
\* ------------------------------------------------------------------------

\* The least key >= pivot, <<>> when there is none.
LeastAtLeast(S, pivot) ==
    LET c == {k \in S : BytesCompare(k, pivot) >= 0}
    IN IF c = {} THEN <<>>
       ELSE CHOOSE k \in c : \A l \in c : BytesCompare(k, l) <= 0

\* The greatest key <= pivot, <<>> when there is none.
GreatestAtMost(S, pivot) ==
    LET c == {k \in S : BytesCompare(k, pivot) <= 0}
    IN IF c = {} THEN <<>>
       ELSE CHOOSE k \in c : \A l \in c : BytesCompare(k, l) >= 0

\* The greatest key, <<>> in an empty store.
LastKey(S) ==
    IF S = {} THEN <<>>
    ELSE CHOOSE k \in S : \A l \in S : BytesCompare(k, l) >= 0

\* C4 as stated: Seek leaves the iterator on the least key >= pivot in
\* forward mode, on the greatest key <= pivot in reverse mode with a
\* non-empty pivot, on the last key in reverse mode with an empty pivot, and
\* exhausted exactly when there is no such key.
C4_SeekPositions ==
    (res.op = "Seek" /\ res.err = NoErr) =>
        it.k = IF ~it.reverse THEN LeastAtLeast(DOMAIN bucket.data, res.k)
               ELSE IF res.k = <<>> THEN LastKey(DOMAIN bucket.data)
               ELSE GreatestAtMost(DOMAIN bucket.data, res.k)

\* C15: in reverse mode a Seek that is not cancelled, with a non-empty pivot
\* above every stored key, leaves the iterator exhausted and without error:
\* it is not moved to the last key, even when the store holds keys.
C15_ReverseSeekAboveAllExhausts ==
    (res.op = "Seek" /\ res.err = NoErr /\ it.reverse /\ res.k # <<>>
        /\ \A k \in DOMAIN bucket.data : BytesCompare(k, res.k) < 0) =>
        /\ it.k = <<>>
        /\ it.v = <<>>
        /\ ~Valid(it)
        /\ it.err = NoErr

\* A reverse Seek(<<6>>) over a store whose last key is <<5>> left the
\* iterator exhausted.
C15_Witness ==
    /\ res.op = "Seek"
    /\ res.err = NoErr
    /\ it.reverse
    /\ res.k = <<6>>
    /\ <<5>> \in DOMAIN bucket.data
    /\ <<1>> \in DOMAIN bucket.data
    /\ it.k = <<>>
    /\ ~Valid(it)

\* C17 as stated: once the context is cancelled, the next step of an
\* iterator that is positioned on an item observes it: the Seek or Next
\* does not move to another valid item but leaves the iterator invalid with
\* the cancellation error, so that a scan delivers no further item.
C17_CancellationSeenAtNextStep ==
    [][(done /\ it.open /\ Valid(it) /\ it' # it
          /\ res'.op \in {"Seek", "Next"}) =>
          /\ ~Valid(it')
          /\ it'.err = ErrCanceled]_vars

\* C19: the walk back of a reverse Seek always comes to an end, whatever the
\* store holds and whatever the pivot: Seek returns with the iterator on a
\* key <= pivot or with no item, the cursor having run off the front.
C19_ReverseSeekTerminates ==
    Walking ~> (/\ res.op = "Seek"
                /\ it.k = <<>> \/ BytesCompare(it.k, res.k) <= 0)

\* A reverse Seek over a store that holds keys, all above the pivot,
\* returned after its walk ran off the front of the store.
C19_Witness ==
    /\ res.op = "Seek"
    /\ res.err = NoErr
    /\ it.reverse
    /\ res.k # <<>>
    /\ DOMAIN bucket.data # {}
    /\ \A k \in DOMAIN bucket.data : BytesCompare(k, res.k) > 0
    /\ it.cur = 0
    /\ it.k = <<>>

\* The walk taken step by step ends where Seek taken as a whole ends.
WalkAgreesWithSeek ==
    (res.op = "Seek" /\ res.err = NoErr /\ it.reverse /\ res.k # <<>>) =>
        /\ it.k = ReverseSeek(bucket, res.k).k
        /\ it.stack = ReverseSeek(bucket, res.k).stack
        /\ it.cur = ReverseSeek(bucket, res.k).cur

\* What the handle reads is its root node when it has one and its page
\* otherwise, and a cursor never stands further than one past the end of
\* what it was positioned on or one past where the node has shrunk from.
HandleReadsPageNode ==
    /\ bucket.data = Ref(bucket, PageNode(bucket))
    /\ bucket.rooted => bucket.nodes
    /\ it.cur \in 0..(Cardinality(Keys \cup IterKeys) + 1)

\* C5: a Put, Get, Delete, Truncate, NextSequence or Seek called with the
\* context already cancelled reports the cancellation error and leaves the
\* contents, the sequence counter and the iterator's position as they were.
C5_CancelledCallsDoNothing ==
    [][(done /\ res' # res
          /\ res'.op \in MutatingOps \cup {"Get", "Seek"}) =>
            /\ res'.err = ErrCanceled
            /\ bucket' = bucket
            /\ root' = root
            /\ it'.k = it.k
            /\ it'.v = it.v
            /\ it'.stack = it.stack
            /\ it'.ref = it.ref
            /\ it'.cur = it.cur]_vars

\* A cancelled Seek left the iterator on an item that the Seek would have
\* moved it away from.
C5_Witness ==
    /\ done
    /\ res.op = "Seek"
    /\ res.err = ErrCanceled
    /\ it.err = ErrCanceled
    /\ it.k # <<>>
    /\ it.k # LeastAtLeast(DOMAIN bucket.data, res.k)
    /\ ~it.reverse

\* C13: once an iterator has recorded an error, every later Seek and Next
\* leaves it invalid with Err() still that error, for as long as the
\* iterator is in use: whatever is called on it or on its store, Close
\* included, until another iterator is made.
C13_ErroredStaysInvalid ==
    [][(it.open /\ it.err # NoErr /\ res'.op # "Iterator") =>
          /\ it'.err = it.err
          /\ ~Valid(it')]_vars

\* After a Seek recorded the cancellation, a Next moved the cursor onto an
\* item and the iterator is invalid all the same.
C13_Witness ==
    /\ it.open
    /\ it.err = ErrCanceled
    /\ res.op = "Next"
    /\ it.k # <<>>
    /\ ~Valid(it)

\* ------------------------------------------------------------------------
\* Values, documents and expressions (document and expression packages)
\* ------------------------------------------------------------------------

IntV(n) == [type |-> "integer", v |-> n, frac |-> FALSE]
\* A float64 with integral part n; frac says it has a fractional part.
FloatV(n, frac) == [type |-> "float64", v |-> n, frac |-> frac]
TextV == [type |-> "text", v |-> 0, frac |-> FALSE]
BoolV(b) == [type |-> "bool", v |-> IF b THEN 1 ELSE 0, frac |-> FALSE]
\* document.Value{}
ZeroValue == [type |-> "", v |-> 0, frac |-> FALSE]

\* ValueType.IsNumber
IsNumber(type) == type \in {"integer", "float64"}

\* Value.ConvertTo(document.IntValue): fails when the conversion would lose
\* information.
ConvertTo(v) ==
    IF v.type = "integer" THEN [v |-> v, err |-> NoErr]
    ELSE IF v.type = "float64" /\ ~v.frac
    THEN [v |-> IntV(v.v), err |-> NoErr]
    ELSE [v |-> ZeroValue, err |-> ErrConvert]

\* Value.ConvertToInt
ConvertToInt(v) ==
    IF v.type = "integer" THEN [n |-> v.v, err |-> NoErr]
    ELSE [n |-> 0, err |-> ErrConvert]

NoExpr == [kind |-> "nil", val |-> ZeroValue, name |-> ""]
Lit(v) == [kind |-> "literal", val |-> v, name |-> ""]
FieldSel(f) == [kind |-> "field", val |-> ZeroValue, name |-> f]
\* field > n
Gt(f, n) == [kind |-> "gt", val |-> IntV(n), name |-> f]
\* An expression whose evaluation fails, whatever the document.
BadExpr == [kind |-> "invalid", val |-> ZeroValue, name |-> ""]

\* The fields of a document in the order Iterate visits them.
FieldOrder == <<"a", "b">>

\* Document.GetByField
DocGetByField(doc, name) ==
    IF name \in DOMAIN doc.fields
    THEN [v |-> doc.fields[name], err |-> NoErr]
    ELSE [v |-> ZeroValue, err |-> ErrFieldNotFound]

NoDoc == [key |-> <<>>, fields |-> EmptyMap]
EvalStack(hasDoc, doc, cfg) == [hasDoc |-> hasDoc, doc |-> doc, cfg |-> cfg]
NoCfg == [pkPath |-> <<>>]

\* Expr.Eval: a value, or a zero value with an error; a field selector that
\* finds no field reports ErrFieldNotFound.
Eval(e, stack) ==
    CASE e.kind = "literal" -> [v |-> e.val, err |-> NoErr]
      [] e.kind = "field" ->
            IF stack.hasDoc THEN DocGetByField(stack.doc, e.name)
            ELSE [v |-> ZeroValue, err |-> ErrFieldNotFound]
      [] e.kind = "gt" ->
            IF stack.hasDoc /\ e.name \in DOMAIN stack.doc.fields
            THEN [v |-> BoolV(stack.doc.fields[e.name].v > e.val.v),
                  err |-> NoErr]
            ELSE [v |-> ZeroValue, err |-> ErrFieldNotFound]
      [] OTHER -> [v |-> ZeroValue, err |-> ErrEval]

\* ------------------------------------------------------------------------
\* Streams and the query optimizer (document.Stream, queryOptimizer)
\* ------------------------------------------------------------------------

\* A stream is modelled by the documents it yields, in order.
StreamOffset(st, n) == SubSeq(st, n + 1, Len(st))

StreamLimit(st, n) == SubSeq(st, 1, IF n < Len(st) THEN n ELSE Len(st))

RECURSIVE StreamFilter(_, _)
\* The documents for which the WHERE expression evaluates to true.
StreamFilter(st, where) ==
    IF st = <<>> THEN <<>>
    ELSE LET r == Eval(where, EvalStack(TRUE, Head(st), NoCfg))
             keep == where.kind = "nil" \/ (r.err = NoErr /\ r.v = BoolV(TRUE))
         IN (IF keep THEN <<Head(st)>> ELSE <<>>)
                \o StreamFilter(Tail(st), where)

RECURSIVE Reverse(_)
Reverse(st) == IF st = <<>> THEN <<>> ELSE Reverse(Tail(st)) \o <<Head(st)>>

\* The tables of the database: one table, in primary-key order.
TableNames == {"t"}

\* newQueryOptimizer: fails when the table does not exist.
NewQueryOptimizer(tableName) ==
    IF tableName \in TableNames THEN NoErr ELSE ErrTableNotFound

\* queryOptimizer.optimizeQuery: the table's documents that satisfy WHERE,
\* in primary-key order, or in the reverse of it under ORDER BY ... DESC on
\* the primary key.
OptimizeQuery(qo, table) ==
    LET st == StreamFilter(table, qo.whereExpr)
    IN IF qo.orderBy # "" /\ qo.orderByDirection = "DESC" THEN Reverse(st)
       ELSE st

\* ------------------------------------------------------------------------
\* SelectStmt.exec
\* ------------------------------------------------------------------------

\* LIMIT/OFFSET as they would be if a non-numeric value counted as zero.
EvalBound_CoerceToZero(e, notNumber) ==
    LET r == Eval(e, EvalStack(FALSE, NoDoc, NoCfg))
    IN IF r.err # NoErr THEN [n |-> -1, err |-> r.err]
       ELSE IF ~IsNumber(r.v.type) THEN [n |-> 0, err |-> NoErr]
       ELSE LET c == ConvertTo(r.v)
            IN IF c.err # NoErr THEN [n |-> -1, err |-> c.err]
               ELSE ConvertToInt(c.v)

\* The evaluation of a present OFFSET or LIMIT expression: Eval, the
\* IsNumber check, ConvertTo(IntValue), ConvertToInt.
EvalBound(e, notNumber) ==
    LET r == Eval(e, EvalStack(FALSE, NoDoc, NoCfg))
    IN IF r.err # NoErr THEN [n |-> -1, err |-> r.err]
       ELSE IF ~IsNumber(r.v.type) THEN [n |-> -1, err |-> notNumber]
       ELSE LET c == ConvertTo(r.v)
            IN IF c.err # NoErr THEN [n |-> -1, err |-> c.err]
               ELSE ConvertToInt(c.v)

\* Limit before Offset.
ApplyOffsetLimit_LimitFirst(st, offset, limit) ==
    LET a == IF limit >= 0 THEN StreamLimit(st, limit) ELSE st
    IN IF offset > 0 THEN StreamOffset(a, offset) ELSE a

\* if offset > 0 { st = st.Offset(offset) }
\* if limit >= 0 { st = st.Limit(limit) }
ApplyOffsetLimit(st, offset, limit) ==
    LET a == IF offset > 0 THEN StreamOffset(st, offset) ELSE st
    IN IF limit >= 0 THEN StreamLimit(a, limit) ELSE a

\* st.Map(...): every document wrapped in a documentMask.
MapMask(st, cfg, resultFields) ==
    [i \in 1..Len(st) |->
        [cfg |-> cfg, r |-> st[i], resultFields |-> resultFields]]

ExecFailed(err, trace) ==
    [err |-> err, hasStream |-> FALSE, stream |-> <<>>, trace |-> trace]

\* exec as it would be if the table name were looked at by the optimizer
\* only, after LIMIT and OFFSET have been evaluated.
Exec_NoTableNameCheck(stmt, table, cfg) ==
    LET dir == IF stmt.orderByDirection # "DESC" THEN "ASC" ELSE "DESC"
        off == IF stmt.offsetExpr.kind # "nil"
               THEN EvalBound(stmt.offsetExpr, ErrOffsetNotNumber)
               ELSE [n |-> -1, err |-> NoErr]
        t1 == IF stmt.offsetExpr.kind # "nil" THEN <<"Eval offset">> ELSE <<>>
        lim == IF stmt.limitExpr.kind # "nil"
               THEN EvalBound(stmt.limitExpr, ErrLimitNotNumber)
               ELSE [n |-> -1, err |-> NoErr]
        t2 == IF stmt.limitExpr.kind # "nil"
              THEN t1 \o <<"Eval limit">> ELSE t1
        t3 == t2 \o <<"newQueryOptimizer">>
        qo == [whereExpr |-> stmt.whereExpr, orderBy |-> stmt.orderBy,
               orderByDirection |-> dir, limit |-> lim.n, offset |-> off.n]
    IN IF off.err # NoErr THEN ExecFailed(off.err, t1)
       ELSE IF lim.err # NoErr THEN ExecFailed(lim.err, t2)
       ELSE IF stmt.tableName = "" THEN ExecFailed(ErrMissingTable, t3)
       ELSE IF NewQueryOptimizer(stmt.tableName) # NoErr
       THEN ExecFailed(NewQueryOptimizer(stmt.tableName), t3)
       ELSE [err |-> NoErr,
             hasStream |-> TRUE,
             stream |-> MapMask(ApplyOffsetLimit(OptimizeQuery(qo, table),
                                                 off.n, lim.n),
                                cfg, stmt.selectors),
             trace |-> t3 \o <<"optimizeQuery">>]

\* SelectStmt.exec.  trace lists the calls made to the evaluator and to the
\* optimizer, in order.
Exec(stmt, table, cfg) ==
    IF stmt.tableName = "" THEN ExecFailed(ErrMissingTable, <<>>)
    ELSE
    LET dir == IF stmt.orderByDirection # "DESC" THEN "ASC" ELSE "DESC"
        off == IF stmt.offsetExpr.kind # "nil"
               THEN EvalBound(stmt.offsetExpr, ErrOffsetNotNumber)
               ELSE [n |-> -1, err |-> NoErr]
        t1 == IF stmt.offsetExpr.kind # "nil" THEN <<"Eval offset">> ELSE <<>>
        lim == IF stmt.limitExpr.kind # "nil"
               THEN EvalBound(stmt.limitExpr, ErrLimitNotNumber)
               ELSE [n |-> -1, err |-> NoErr]
        t2 == IF stmt.limitExpr.kind # "nil"
              THEN t1 \o <<"Eval limit">> ELSE t1
        t3 == t2 \o <<"newQueryOptimizer">>
        qo == [whereExpr |-> stmt.whereExpr, orderBy |-> stmt.orderBy,
               orderByDirection |-> dir, limit |-> lim.n, offset |-> off.n]
    IN IF off.err # NoErr THEN ExecFailed(off.err, t1)
       ELSE IF lim.err # NoErr THEN ExecFailed(lim.err, t2)
       ELSE IF NewQueryOptimizer(stmt.tableName) # NoErr
       THEN ExecFailed(NewQueryOptimizer(stmt.tableName), t3)
       ELSE [err |-> NoErr,
             hasStream |-> TRUE,
             stream |-> MapMask(ApplyOffsetLimit(OptimizeQuery(qo, table),
                                                 off.n, lim.n),
                                cfg, stmt.selectors),
             trace |-> t3 \o <<"optimizeQuery">>]

\* ------------------------------------------------------------------------
\* Result projection (documentMask and the ResultFields)
\* ------------------------------------------------------------------------

RFExpr(e, name) == [kind |-> "expr", expr |-> e, name |-> name]
Wildcard == [kind |-> "wildcard", expr |-> NoExpr, name |-> "*"]
KeyFunc == [kind |-> "key", expr |-> NoExpr, name |-> "key()"]

\* ResultField.Name
Name(rf) ==
    CASE rf.kind = "expr" -> rf.name
      [] rf.kind = "wildcard" -> "*"
      [] OTHER -> "key()"

\* The callback handed to Iterate.  acc holds the calls made so far and the
\* error of the last one; the callback fails on its failAt-th call (never
\* when failAt is 0).
NoCalls == [calls |-> <<>>, err |-> NoErr]

Fn(acc, failAt, field, value) ==
    LET calls == Append(acc.calls, [field |-> field, value |-> value])
    IN [calls |-> calls,
        err |-> IF Len(calls) = failAt THEN ErrFn ELSE NoErr]

\* ResultFieldExpr.Iterate: evaluates the expression; an error other than
\* ErrFieldNotFound is returned, otherwise fn is called with the value.
ResultFieldExprIterate(rf, stack, acc, failAt) ==
    LET r == Eval(rf.expr, stack)
    IN IF r.err # NoErr /\ r.err # ErrFieldNotFound
       THEN [acc EXCEPT !.err = r.err]
       ELSE Fn(acc, failAt, rf.name, r.v)

RECURSIVE DocIterate(_, _, _, _)
\* Document.Iterate: fn on every field, until fn fails.
DocIterate(doc, names, acc, failAt) ==
    IF names = <<>> \/ acc.err # NoErr THEN acc
    ELSE IF Head(names) \in DOMAIN doc.fields
    THEN DocIterate(doc, Tail(names),
                    Fn(acc, failAt, Head(names), doc.fields[Head(names)]),
                    failAt)
    ELSE DocIterate(doc, Tail(names), acc, failAt)

\* Wildcard.Iterate
WildcardIterate(stack, acc, failAt) ==
    DocIterate(stack.doc, FieldOrder, acc, failAt)

\* The key the storage assigns to the n-th document, and its decoding
\* (encoding.DecodeValue with document.Int64Value).
EncodeKey(n) == <<n \div 256, n % 256>>

DecodeValue(key) ==
    IF Len(key) # 2 THEN [v |-> ZeroValue, err |-> ErrDecode]
    ELSE [v |-> IntV(key[1] * 256 + key[2]), err |-> NoErr]

\* ValuePath.GetValue for a path of one field.
PathGetValue(path, doc) == DocGetByField(doc, path[1])

\* ValuePath.String
PathString(path) == path[1]

\* KeyFunc.Iterate as it would be if the pair were always named "key()".
KeyFuncIterate_AlwaysKeyName(stack, acc, failAt) ==
    IF Len(stack.cfg.pkPath) # 0
    THEN LET r == PathGetValue(stack.cfg.pkPath, stack.doc)
         IN IF r.err # NoErr THEN [acc EXCEPT !.err = r.err]
            ELSE Fn(acc, failAt, "key()", r.v)
    ELSE LET r == DecodeValue(stack.doc.key)
         IN IF r.err # NoErr THEN [acc EXCEPT !.err = r.err]
            ELSE Fn(acc, failAt, "key()", r.v)

\* KeyFunc.Iterate
KeyFuncIterate(stack, acc, failAt) ==
    IF Len(stack.cfg.pkPath) # 0
    THEN LET r == PathGetValue(stack.cfg.pkPath, stack.doc)
         IN IF r.err # NoErr THEN [acc EXCEPT !.err = r.err]
            ELSE Fn(acc, failAt, PathString(stack.cfg.pkPath), r.v)
    ELSE LET r == DecodeValue(stack.doc.key)
         IN IF r.err # NoErr THEN [acc EXCEPT !.err = r.err]
            ELSE Fn(acc, failAt, "key()", r.v)

\* ResultField.Iterate
ResultFieldIterate(rf, stack, acc, failAt) ==
    CASE rf.kind = "expr" -> ResultFieldExprIterate(rf, stack, acc, failAt)
      [] rf.kind = "wildcard" -> WildcardIterate(stack, acc, failAt)
      [] OTHER -> KeyFuncIterate(stack, acc, failAt)

RECURSIVE IterateFields(_, _, _, _)
IterateFields(rfs, stack, acc, failAt) ==
    IF rfs = <<>> \/ acc.err # NoErr THEN acc
    ELSE IterateFields(Tail(rfs), stack,
                       ResultFieldIterate(Head(rfs), stack, acc, failAt),
                       failAt)

\* documentMask.Iterate: every result field in turn, until one fails.
MaskIterate(mask, failAt) ==
    IterateFields(mask.resultFields, EvalStack(TRUE, mask.r, mask.cfg),
                  NoCalls, failAt)

\* documentMask.GetByField: the source document's field, when a result field
\* has that name or is the wildcard.
MaskGetByField(mask, name) ==
    IF \E i \in 1..Len(mask.resultFields) :
           Name(mask.resultFields[i]) = name
               \/ Name(mask.resultFields[i]) = "*"
    THEN DocGetByField(mask.r, name)
    ELSE [v |-> ZeroValue, err |-> ErrFieldNotFound]

\* ------------------------------------------------------------------------
\* Select statements under execution
\* ------------------------------------------------------------------------

\* The n-th document of the table: field a holds n, every second document
\* also has a field b.
Doc(n) ==
    [key |-> EncodeKey(n),
     fields |-> IF n % 2 = 1 THEN ("a" :> IntV(n))
                ELSE ("a" :> IntV(n) @@ "b" :> TextV)]

Table(m) == [n \in 1..m |-> Doc(n)]

Stmt(tableName, whereExpr, orderBy, dir, offsetExpr, limitExpr, selectors) ==
    [tableName |-> tableName, whereExpr |-> whereExpr, orderBy |-> orderBy,
     orderByDirection |-> dir, offsetExpr |-> offsetExpr,
     limitExpr |-> limitExpr, selectors |-> selectors]

Select(stmt, table, cfg) == [stmt |-> stmt, table |-> table, cfg |-> cfg]

\* LIMIT and OFFSET expressions: absent, integers, floats with and without
\* a fractional part, a string, a field selector, a failing expression.
BoundExprs ==
    {NoExpr} \cup {Lit(IntV(n)) : n \in -1..(MaxDocs + 1)}
        \cup {Lit(FloatV(1, FALSE)), Lit(FloatV(1, TRUE)), Lit(TextV),
              FieldSel("a"), BadExpr}

FewBoundExprs == {NoExpr, Lit(IntV(0)), Lit(IntV(1)), Lit(IntV(2)), Lit(TextV)}

ResultFields ==
    {RFExpr(FieldSel("a"), "a"), RFExpr(FieldSel("b"), "b"),
     RFExpr(Lit(IntV(7)), "7"), RFExpr(BadExpr, "bad"), Wildcard, KeyFunc}

SelectorLists ==
    {<<x>> : x \in ResultFields}
        \cup {<<x, y>> : x \in ResultFields, y \in ResultFields}

Cfgs == {[pkPath |-> <<>>], [pkPath |-> <<"a">>], [pkPath |-> <<"b">>]}

\* Statements that vary LIMIT and OFFSET over tables of every size.
BoundSelects ==
    {Select(Stmt("t", NoExpr, "", "", o, l, <<Wildcard>>), Table(m), NoCfg) :
        o \in BoundExprs, l \in BoundExprs, m \in 0..MaxDocs}

\* Statements that vary the table name, WHERE and ORDER BY.
SourceSelects ==
    {Select(Stmt(t, w, ob[1], ob[2], o, l, <<Wildcard>>), Table(MaxDocs),
            NoCfg) :
        t \in {"", "t", "u"}, w \in {NoExpr, Gt("a", 1)},
        ob \in {<<"", "">>, <<"a", "ASC">>, <<"a", "DESC">>, <<"a", "">>},
        o \in FewBoundExprs, l \in FewBoundExprs}

\* Statements that vary the result fields and the primary key.
ProjectionSelects ==
    {Select(Stmt("t", NoExpr, "", "", NoExpr, NoExpr, sl), Table(2), cfg) :
        sl \in SelectorLists, cfg \in Cfgs}

Selects == BoundSelects \cup SourceSelects \cup ProjectionSelects

NoSel == Select(Stmt("", NoExpr, "", "", NoExpr, NoExpr, <<>>), <<>>, NoCfg)
NotRun == ExecFailed("not run", <<>>)
NoMaskOut == [op |-> "none", mask |-> [cfg |-> NoCfg, r |-> NoDoc,
                                       resultFields |-> <<>>],
              name |-> "", failAt |-> 0, calls |-> <<>>, v |-> ZeroValue,
              err |-> NoErr]

FieldNames == {"a", "b", "7", "bad", "key()", "*"}

\* SelectStmt.Run
Run ==
    /\ execOut = NotRun
    /\ execOut' = Exec(sel.stmt, sel.table, sel.cfg)
    /\ UNCHANGED <<storeVars, sel, docs, maskOut>>

\* The consumer of the stream calls Iterate on one of its documents.
IterateDocument(i, failAt) ==
    /\ execOut.hasStream
    /\ i \in 1..Len(execOut.stream)
    /\ LET acc == MaskIterate(execOut.stream[i], failAt)
       IN maskOut' = [NoMaskOut EXCEPT !.op = "Iterate",
                                       !.mask = execOut.stream[i],
                                       !.failAt = failAt,
                                       !.calls = acc.calls,
                                       !.err = acc.err]
    /\ UNCHANGED <<storeVars, sel, docs, execOut>>

\* The consumer of the stream calls GetByField on one of its documents.
GetByField(i, name) ==
    /\ execOut.hasStream
    /\ i \in 1..Len(execOut.stream)
    /\ LET r == MaskGetByField(execOut.stream[i], name)
       IN maskOut' = [NoMaskOut EXCEPT !.op = "GetByField",
                                       !.mask = execOut.stream[i],
                                       !.name = name,
                                       !.v = r.v,
                                       !.err = r.err]
    /\ UNCHANGED <<storeVars, sel, docs, execOut>>

\* ------------------------------------------------------------------------
\* Delete statements (query.DeleteStmt)
\* ------------------------------------------------------------------------

RECURSIVE Without(_, _)
\* Table.Delete of every key of ks: the documents of the table whose key is
\* not among them, in the table's order.
Without(table, ks) ==
    IF table = <<>> THEN <<>>
    ELSE (IF Head(table).key \in ks THEN <<>> ELSE <<Head(table)>>)
             \o Without(Tail(table), ks)

\* What a delete statement returns.
DeleteResult(err, table) ==
    [out |-> [err |-> err, hasStream |-> FALSE, stream |-> <<>>,
              trace |-> <<"Delete">>],
     table |-> table]

\* A delete that removes the first matching document only.
DeleteExec_FirstMatchOnly(stmt, table) ==
    IF stmt.tableName = "" THEN DeleteResult(ErrMissingTable, table)
    ELSE IF stmt.tableName \notin TableNames
    THEN DeleteResult(ErrTableNotFound, table)
    ELSE LET st == StreamFilter(table, stmt.whereExpr)
         IN DeleteResult(NoErr,
                         Without(table, {st[i].key : i \in 1..Min(1, Len(st))}))

\* DeleteStmt.exec: streams the table through the WHERE filter and deletes
\* every document the stream yields, by its key.
DeleteExec(stmt, table) ==
    IF stmt.tableName = "" THEN DeleteResult(ErrMissingTable, table)
    ELSE IF stmt.tableName \notin TableNames
    THEN DeleteResult(ErrTableNotFound, table)
    ELSE LET st == StreamFilter(table, stmt.whereExpr)
         IN DeleteResult(NoErr,
                         Without(table, {st[i].key : i \in 1..Len(st)}))

\* The n-th document inserted in a table, with the integer age in field a.
AgedDoc(n, age) == [key |-> EncodeKey(n), fields |-> ("a" :> IntV(age))]

\* Tables of up to MaxDocs documents with any ages.
AgedTables ==
    UNION {{[n \in 1..m |-> AgedDoc(n, ages[n])] :
                ages \in [1..m -> 1..MaxAge]} : m \in 0..MaxDocs}

\* Delete statements: a > n for every n, a predicate on a field that no
\* document has, no predicate at all, and a table that does not exist.
Deletes ==
    {Select(Stmt(t, w, "", "", NoExpr, NoExpr, <<>>), table, NoCfg) :
        t \in {"t", "u"},
        w \in {Gt("a", n) : n \in 0..MaxAge} \cup {Gt("b", 1), NoExpr},
        table \in AgedTables}

\* DeleteStmt.Run
RunDelete ==
    /\ execOut = NotRun
    /\ LET o == DeleteExec(sel.stmt, docs)
       IN /\ execOut' = o.out
          /\ docs' = o.table
    /\ UNCHANGED <<storeVars, sel, maskOut>>

\* ------------------------------------------------------------------------
\* Properties of Select
\* ------------------------------------------------------------------------

\* The stream the optimizer hands to exec for the statement under execution.
SourceStream ==
    OptimizeQuery([whereExpr |-> sel.stmt.whereExpr,
                   orderBy |-> sel.stmt.orderBy,
                   orderByDirection |->
                       IF sel.stmt.orderByDirection = "DESC" THEN "DESC"
                       ELSE "ASC"],
                  sel.table)

\* The expression is a number that converts to a natural number.
IsCount(e) ==
    /\ e.kind = "literal"
    /\ IsNumber(e.val.type)
    /\ ~e.val.frac
    /\ e.val.v >= 0

\* C7: with OFFSET n and LIMIT k the select yields the documents at
\* positions [n, n+k) of the optimizer's stream, in its order, each behind
\* the statement's projection.
C7_OffsetThenLimit ==
    (execOut.hasStream /\ IsCount(sel.stmt.offsetExpr)
        /\ IsCount(sel.stmt.limitExpr)) =>
        LET n == sel.stmt.offsetExpr.val.v
            k == sel.stmt.limitExpr.val.v
            m == Len(SourceStream)
            last == Min(n + k, m)
        IN /\ execOut.err = NoErr
           /\ Len(execOut.stream) = IF last > n THEN last - n ELSE 0
           /\ \A i \in 1..Len(execOut.stream) :
                 /\ execOut.stream[i].r = SourceStream[n + i]
                 /\ execOut.stream[i].resultFields = sel.stmt.selectors
                 /\ execOut.stream[i].cfg = sel.cfg

\* OFFSET 1 LIMIT 1 over a filtered stream of two documents yielded its
\* second document alone.
C7_Witness ==
    /\ execOut.hasStream
    /\ sel.stmt.offsetExpr = Lit(IntV(1))
    /\ sel.stmt.limitExpr = Lit(IntV(1))
    /\ sel.stmt.whereExpr # NoExpr
    /\ Len(SourceStream) = 2
    /\ Len(execOut.stream) = 1
    /\ execOut.stream[1].r = SourceStream[2]

\* Evaluating the expression as LIMIT or OFFSET fails or gives no integer.
BadBound(e) ==
    /\ e.kind # "nil"
    /\ LET r == Eval(e, EvalStack(FALSE, NoDoc, NoCfg))
       IN \/ r.err # NoErr
          \/ ~IsNumber(r.v.type)
          \/ ConvertTo(r.v).err # NoErr

\* Evaluating the expression gives a value that is not a number.
NotANumber(e) ==
    /\ e.kind # "nil"
    /\ LET r == Eval(e, EvalStack(FALSE, NoDoc, NoCfg))
       IN r.err = NoErr /\ ~IsNumber(r.v.type)

\* C8: when the LIMIT or OFFSET expression fails to evaluate, evaluates to a
\* value that is not a number or does not convert to an integer, the
\* statement fails, no stream is built and the optimizer is not called; a
\* non-number is reported as such rather than read as zero.
C8_BadBoundFails ==
    (execOut # NotRun
        /\ (BadBound(sel.stmt.offsetExpr) \/ BadBound(sel.stmt.limitExpr))) =>
        /\ execOut.err # NoErr
        /\ ~execOut.hasStream
        /\ execOut.stream = <<>>
        /\ \A i \in 1..Len(execOut.trace) :
              execOut.trace[i] \notin {"newQueryOptimizer", "optimizeQuery"}
        /\ (sel.stmt.tableName # "" /\ NotANumber(sel.stmt.offsetExpr)) =>
              execOut.err = ErrOffsetNotNumber
        /\ (sel.stmt.tableName # "" /\ ~BadBound(sel.stmt.offsetExpr)
               /\ NotANumber(sel.stmt.limitExpr)) =>
              execOut.err = ErrLimitNotNumber

\* A string literal as LIMIT over a non-empty table, after a valid OFFSET.
C8_Witness ==
    /\ execOut.err = ErrLimitNotNumber
    /\ sel.stmt.limitExpr = Lit(TextV)
    /\ sel.stmt.offsetExpr = Lit(IntV(1))
    /\ sel.table # <<>>
    /\ execOut.trace = <<"Eval offset", "Eval limit">>

\* The i-th result field of the projected document is an expression whose
\* evaluation against the source document ends with err.
ExprFieldEndsWith(mask, i, err) ==
    /\ mask.resultFields[i].kind = "expr"
    /\ Eval(mask.resultFields[i].expr,
            EvalStack(TRUE, mask.r, mask.cfg)).err = err

\* C9 as stated: in a projection, an expression field whose evaluation
\* reports field-not-found emits no pair and the projection goes on without
\* error; any other evaluation error aborts the projection with that error
\* and the field is not emitted.
C9_MissingFieldOmitted ==
    (maskOut.op = "Iterate" /\ maskOut.failAt = 0
        /\ \A i \in 1..Len(maskOut.mask.resultFields) :
               maskOut.mask.resultFields[i].kind = "expr") =>
        LET rfs == maskOut.mask.resultFields
            failing == {i \in 1..Len(rfs) :
                           ~ExprFieldEndsWith(maskOut.mask, i, NoErr)
                           /\ ~ExprFieldEndsWith(maskOut.mask, i,
                                                 ErrFieldNotFound)}
        IN /\ \A i \in 1..Len(rfs) :
                 ExprFieldEndsWith(maskOut.mask, i, ErrFieldNotFound) =>
                    \A c \in 1..Len(maskOut.calls) :
                        maskOut.calls[c].field # rfs[i].name
           /\ failing = {} => maskOut.err = NoErr
           /\ failing # {} =>
                 /\ maskOut.err = ErrEval
                 /\ \A i \in failing : \A c \in 1..Len(maskOut.calls) :
                        maskOut.calls[c].field # rfs[i].name

\* The result field GetByField(name) is resolved through: the first one
\* that has that name or is the wildcard.
Matching(mask, name) ==
    {i \in 1..Len(mask.resultFields) :
        /\ Name(mask.resultFields[i]) \in {name, "*"}
        /\ \A j \in 1..(i - 1) :
              Name(mask.resultFields[j]) \notin {name, "*"}}

\* What one result field gives for a name: the pair it emits under that
\* name, or field-not-found.
Resolve(mask, i, name) ==
    LET acc == ResultFieldIterate(mask.resultFields[i],
                                  EvalStack(TRUE, mask.r, mask.cfg),
                                  NoCalls, 0)
        hits == {c \in 1..Len(acc.calls) : acc.calls[c].field = name}
    IN IF acc.err # NoErr THEN [v |-> ZeroValue, err |-> acc.err]
       ELSE IF hits = {} THEN [v |-> ZeroValue, err |-> ErrFieldNotFound]
       ELSE [v |-> acc.calls[CHOOSE c \in hits : TRUE].value, err |-> NoErr]

\* C10 as stated: GetByField(name) on a projected document succeeds only
\* when a result field has that name or is the wildcard, reports
\* field-not-found for every other name even if the source document has the
\* field, and is resolved through the matching result field, not by reading
\* the source document.
C10_LookupThroughResultFields ==
    maskOut.op = "GetByField" =>
        LET hit == Matching(maskOut.mask, maskOut.name)
        IN /\ hit = {} => maskOut.err = ErrFieldNotFound
           /\ maskOut.err = NoErr => hit # {}
           /\ \A i \in hit :
                 /\ maskOut.err = Resolve(maskOut.mask, i, maskOut.name).err
                 /\ maskOut.v = Resolve(maskOut.mask, i, maskOut.name).v

\* C14: a select statement with an empty table name fails with the missing
\* table selector error before anything else is done: neither OFFSET nor
\* LIMIT is evaluated, the optimizer is not called and no stream is built.
C14_EmptyTableNameRejectedFirst ==
    (execOut # NotRun /\ sel.stmt.tableName = "") =>
        /\ execOut.err = ErrMissingTable
        /\ execOut.trace = <<>>
        /\ ~execOut.hasStream
        /\ execOut.stream = <<>>

\* A statement without a table name whose OFFSET is a string and whose
\* LIMIT is valid was rejected for the missing table, not for the OFFSET.
C14_Witness ==
    /\ sel.stmt.tableName = ""
    /\ sel.stmt.offsetExpr = Lit(TextV)
    /\ sel.stmt.limitExpr = Lit(IntV(1))
    /\ sel.table # <<>>
    /\ execOut.err = ErrMissingTable
    /\ execOut.trace = <<>>

\* The numbers the storage assigned to the documents of the table that are
\* this document: the n-th inserted document got the key of n.
AssignedKeys(doc) == {n \in 1..Len(sel.table) : sel.table[n] = doc}

\* C11: the key pseudo-column of a projected document emits exactly one
\* pair: under the name "key()" with the integer the storage assigned to the
\* document when the table declares no primary-key path, and under the
\* path's own name with the value the document has at that path when it
\* declares one; when the document has no value at the path the projection
\* fails and nothing is emitted.
C11_KeyPseudoColumn ==
    (maskOut.op = "Iterate" /\ maskOut.failAt = 0
        /\ maskOut.mask.resultFields = <<KeyFunc>>) =>
        LET doc == maskOut.mask.r
            path == maskOut.mask.cfg.pkPath
        IN IF path = <<>>
           THEN /\ maskOut.err = NoErr
                /\ AssignedKeys(doc) # {}
                /\ \A n \in AssignedKeys(doc) :
                      maskOut.calls = <<[field |-> "key()", value |-> IntV(n)]>>
           ELSE IF path[1] \in DOMAIN doc.fields
           THEN /\ maskOut.err = NoErr
                /\ maskOut.calls = <<[field |-> path[1],
                                      value |-> doc.fields[path[1]]]>>
           ELSE /\ maskOut.err = ErrFieldNotFound
                /\ maskOut.calls = <<>>

\* The second document of a table with the declared primary-key path b was
\* projected to the single pair (b, text), not to its storage key.
C11_Witness ==
    /\ maskOut.op = "Iterate"
    /\ maskOut.failAt = 0
    /\ maskOut.mask.resultFields = <<KeyFunc>>
    /\ maskOut.mask.cfg.pkPath = <<"b">>
    /\ maskOut.mask.r = sel.table[2]
    /\ maskOut.calls = <<[field |-> "b", value |-> TextV]>>

\* The document satisfies the predicate of the statement under execution.
Satisfies(doc) ==
    \/ sel.stmt.whereExpr = NoExpr
    \/ Eval(sel.stmt.whereExpr, EvalStack(TRUE, doc, NoCfg))
           = [v |-> BoolV(TRUE), err |-> NoErr]

\* C12: after a delete statement has succeeded, the table holds exactly the
\* documents it held before that did not satisfy the predicate: no document
\* left satisfies it, every document that did not satisfy it is still
\* there, and the count went down by the number of documents that did.
C12_DeleteRemovesMatching ==
    (execOut.trace = <<"Delete">> /\ execOut.err = NoErr) =>
        LET before == sel.table
            matching == {i \in 1..Len(before) : Satisfies(before[i])}
        IN /\ \A j \in 1..Len(docs) : ~Satisfies(docs[j])
           /\ \A i \in 1..Len(before) :
                 ~Satisfies(before[i]) =>
                    \E j \in 1..Len(docs) : docs[j] = before[i]
           /\ \A j \in 1..Len(docs) :
                 \E i \in 1..Len(before) : docs[j] = before[i]
           /\ Len(docs) = Len(before) - Cardinality(matching)

\* Deleting a > 2 from a table of three documents, the first and the last
\* of which match, left the second one only.
C12_Witness ==
    /\ execOut.trace = <<"Delete">>
    /\ execOut.err = NoErr
    /\ sel.stmt.whereExpr = Gt("a", 2)
    /\ Len(sel.table) = 3
    /\ Satisfies(sel.table[1])
    /\ Satisfies(sel.table[3])
    /\ docs = <<sel.table[2]>>

\* C20 as stated: the two views of a projected document agree: every pair
\* Iterate emits is what GetByField returns for its name, and every name
\* GetByField succeeds for is a name Iterate emits.
C20_ViewsAgree ==
    maskOut.op = "GetByField" =>
        LET acc == MaskIterate(maskOut.mask, 0)
            hits == {c \in 1..Len(acc.calls) :
                        acc.calls[c].field = maskOut.name}
        IN /\ \A c \in hits :
                 /\ maskOut.err = NoErr
                 /\ maskOut.v = acc.calls[c].value
           /\ (maskOut.err = NoErr /\ acc.err = NoErr) => hits # {}

\* ------------------------------------------------------------------------
\* Specification of the store and its iterator within one transaction
\* ------------------------------------------------------------------------

Init ==
    /\ writable \in BOOLEAN
    /\ done = FALSE
    /\ pages \in [data : Maps(Keys, CommittedVals), seq : 0..MaxStartSeq]
    /\ bucket = OpenBucket(pages, writable)
    /\ root = bucket
    /\ attached = TRUE
    /\ it = NoIt
    /\ res = NoRes
    /\ expect = pages.data
    /\ nseq = 0
    /\ pre = {}
    /\ issued = 1..pages.seq
    /\ sel = NoSel
    /\ docs = <<>>
    /\ execOut = NotRun
    /\ maskOut = NoMaskOut

Next ==
    \/ \E k \in Keys, v \in Vals : Put(k, v)
    \/ \E k \in Keys : Get(k)
    \/ \E k \in Keys : Delete(k)
    \/ Truncate
    \/ NextSequence
    \/ Cancel
    \/ \E r \in BOOLEAN : Iterator(r)
    \/ \E p \in StorePivots : Seek(p)
    \/ IterNext
    \/ Close

Spec == Init /\ [][Next]_vars

\* ------------------------------------------------------------------------
\* Specification of a store over the stores handed out for its name within
\* one transaction
\* ------------------------------------------------------------------------

NextLifetime ==
    \/ \E k \in Keys, v \in Vals : Put(k, v)
    \/ \E k \in Keys : Get(k)
    \/ \E k \in Keys : Delete(k)
    \/ Truncate
    \/ (nseq < MaxSeq /\ NextSequence)
    \/ GetStore
    \/ Cancel

SpecLifetime == Init /\ [][NextLifetime]_vars

\* ------------------------------------------------------------------------
\* Specification of the iterator alone, over a store that already holds
\* any set of keys
\* ------------------------------------------------------------------------

InitIter ==
    /\ writable \in BOOLEAN
    /\ done = FALSE
    /\ pages \in [data : Maps(IterKeys, CommittedVals), seq : {0}]
    /\ bucket = OpenBucket(pages, writable)
    /\ root = bucket
    /\ attached = TRUE
    /\ it \in {[NoIt EXCEPT !.open = TRUE, !.reverse = r] : r \in BOOLEAN}
    /\ res = NoRes
    /\ expect = pages.data
    /\ nseq = 0
    /\ pre = {}
    /\ issued = 1..pages.seq
    /\ sel = NoSel
    /\ docs = <<>>
    /\ execOut = NotRun
    /\ maskOut = NoMaskOut

NextIter ==
    \/ \E p \in Pivots : Seek(p)
    \/ IterNext
    \/ Cancel

SpecIter == InitIter /\ [][NextIter]_vars

\* ------------------------------------------------------------------------
\* Specification of the iterator with Seek taken one loop step at a time.
\* A Seek that is in its loop goes on executing.
\* ------------------------------------------------------------------------

NextWalk ==
    \/ \E p \in Pivots : SeekBegin(p)
    \/ WalkStep
    \/ (~Walking /\ IterNext)
    \/ Cancel

SpecWalk == InitIter /\ [][NextWalk]_vars /\ WF_vars(WalkStep)

\* ------------------------------------------------------------------------
\* Specification of a Select statement and of the documents it yields
\* ------------------------------------------------------------------------

InitSelect ==
    /\ writable = FALSE
    /\ done = FALSE
    /\ pages = [data |-> EmptyMap, seq |-> 0]
    /\ bucket = OpenBucket(pages, writable)
    /\ root = bucket
    /\ attached = TRUE
    /\ it = NoIt
    /\ res = NoRes
    /\ expect = EmptyMap
    /\ nseq = 0
    /\ pre = {}
    /\ issued = {}
    /\ sel \in Selects
    /\ docs = sel.table
    /\ execOut = NotRun
    /\ maskOut = NoMaskOut

NextSelect ==
    \/ Run
    \/ \E i \in 1..MaxDocs, failAt \in 0..2 : IterateDocument(i, failAt)
    \/ \E i \in 1..MaxDocs, name \in FieldNames : GetByField(i, name)

SpecSelect == InitSelect /\ [][NextSelect]_vars

\* ------------------------------------------------------------------------
\* Specification of a Delete statement and of the table it leaves
\* ------------------------------------------------------------------------

InitDelete ==
    /\ writable = TRUE
    /\ done = FALSE
    /\ pages = [data |-> EmptyMap, seq |-> 0]
    /\ bucket = OpenBucket(pages, writable)
    /\ root = bucket
    /\ attached = TRUE
    /\ it = NoIt
    /\ res = NoRes
    /\ expect = EmptyMap
    /\ nseq = 0
    /\ pre = {}
    /\ issued = {}
    /\ sel \in Deletes
    /\ docs = sel.table
    /\ execOut = NotRun
    /\ maskOut = NoMaskOut

NextDelete == RunDelete

SpecDelete == InitDelete /\ [][NextDelete]_vars

====
